---- MODULE Spec2Model ----
(***************************************************************************)
(* A model of the Longhorn volume manager (src/main.go): the volume access *)
(* resolver (getVolumeInfo), the ephemeral resource provisioner             *)
(* (createTemporaryPV, createTemporaryPodForLonghorn and the RWX variants), *)
(* the commands of main (contents, download, copy with its cleanup), the   *)
(* garbage collector (CleanupTemporaryResources), the streaming copy engine *)
(* (streamCopyBetweenPods) and the destination pre-clear of CopyVolume.     *)
(*                                                                         *)
(* The control plane is a set of objects (PVs, PVCs, pods); every request  *)
(* of the tool to it is one step, so that the environment (binding of      *)
(* claims, pod phases, workloads that start and stop) interleaves with the *)
(* tool between any two requests.                                          *)
(***************************************************************************)
EXTENDS Naturals, Integers, Sequences, FiniteSets, TLC

VARIABLES
    lhvol,      \* Longhorn volume name -> kubernetesStatus.pvName ("" when none)
    pvs,        \* the PersistentVolumes of the cluster
    pvcs,       \* the PersistentVolumeClaims of the namespace
    pods,       \* the pods of the namespace
    proc,       \* the invocations of the tool: process -> local state
    nfaults,    \* control-plane requests that failed transiently so far
    nenv,       \* disturbing environment events so far
    last,       \* the last successful direct provisioning, while nothing changed since
    sw,         \* the state of a Sweep (CleanupTemporaryResources)
    cp,         \* the state of the streaming copy engine (streamCopyBetweenPods)
    fsys        \* the files of the volumes' mount roots; the shell of the containers

vars == <<lhvol, pvs, pvcs, pods, proc, nfaults, nenv, last, sw, cp, fsys>>

(***************************************************************************)
(* Bounds of the model.                                                    *)
(***************************************************************************)
MaxFaults == 1      \* transient control-plane failures per behaviour
MaxEnv == 1         \* workload starts/stops and pod exits per behaviour

(***************************************************************************)
(* Program constants.                                                      *)
(***************************************************************************)
PVCPollMax == 60    \* for i := 0; i < 60; i++
PodPollMax == 120   \* for i := 0; i < 120; i++

Vols == {"a", "b"}          \* the Longhorn volumes that exist
Ghost == "zz"               \* a volume name absent from the storage metadata
Procs == {1, 2}

(***************************************************************************)
(* Resource naming convention.                                             *)
(***************************************************************************)
TempPV(v) == "lhc-temp-pv-" \o v
TempPVC(v) == "lhc-temp-pvc-" \o v
TempPod(v) == "lhc-temp-pod-" \o v
RwxName(v) == "lhc-temp-rwx-" \o v
MountPath == "/mnt/volume"
ContainerName == "temp-container"

\* Operator-owned objects of the environment: the PV a volume is bound to, the
\* claim bound to that PV and the workload that uses the claim.
OpPV(v) == "pv-" \o v
OpPVC(v) == "data-" \o v
OpPod(v) == "app-" \o v

NoHandle == [pod |-> "", ctr |-> "", path |-> ""]
Handle(p, c, m) == [pod |-> p, ctr |-> c, path |-> m]

(***************************************************************************)
(* Pod specs.  A pod holds its volumes and its containers with their       *)
(* mounts, in the order of the spec.                                       *)
(***************************************************************************)
TempPodSpec(pvcName) ==
    [vols |-> << [name |-> "volume", claim |-> pvcName] >>,
     ctrs |-> << [name |-> ContainerName,
                  mounts |-> << [name |-> "volume", path |-> MountPath] >>] >>]

\* The workloads of the environment: the claim mounted by the only container;
\* mounted by the second container, after a container that mounts something
\* else; declared as a volume that no container mounts.
Shapes == {"plain", "sidecar", "unmounted"}
WorkloadSpec(shape, claim) ==
    CASE shape = "plain" ->
           [vols |-> << [name |-> "data", claim |-> claim] >>,
            ctrs |-> << [name |-> "app",
                         mounts |-> << [name |-> "data", path |-> "/data"] >>] >>]
      [] shape = "sidecar" ->
           [vols |-> << [name |-> "cfg", claim |-> ""],
                        [name |-> "data", claim |-> claim] >>,
            ctrs |-> << [name |-> "side",
                         mounts |-> << [name |-> "cfg", path |-> "/cfg"] >>],
                        [name |-> "app",
                         mounts |-> << [name |-> "cfg", path |-> "/etc/cfg"],
                                       [name |-> "data", path |-> "/srv"] >>] >>]
      [] OTHER ->
           [vols |-> << [name |-> "data", claim |-> claim] >>,
            ctrs |-> << [name |-> "app", mounts |-> << >>] >>]

MkPod(name, phase, spec, lab) ==
    [name |-> name, phase |-> phase, vols |-> spec.vols, ctrs |-> spec.ctrs, lab |-> lab]
MkPVC(name, vol, phase, lab) ==
    [name |-> name, vol |-> vol, phase |-> phase, lab |-> lab]
MkPV(name, handle, lab) ==
    [name |-> name, handle |-> handle, lab |-> lab]

HasPV(n) == \E o \in pvs : o.name = n
HasPVC(n) == \E o \in pvcs : o.name = n
HasPod(n) == \E o \in pods : o.name = n
ThePVC(n) == CHOOSE o \in pvcs : o.name = n
ThePod(n) == CHOOSE o \in pods : o.name = n


(***************************************************************************)
(* Pure functions of the resolver.                                         *)
(***************************************************************************)
\* The claims bound to PV pvName (isVolumeInUse, findExistingPodForVolume: the
\* loop takes the first such claim of the list, whose order is the control
\* plane's).
BoundClaims(pvName) ==
    {c.name : c \in {o \in pvcs : o.vol = pvName /\ o.phase = "Bound"}}

\* isVolumeInUse, second loop: a running pod has a volume of claim target.
PodUsesClaim(pod, target) ==
    /\ pod.phase = "Running"
    /\ \E k \in 1..Len(pod.vols) :
          pod.vols[k].claim # "" /\ pod.vols[k].claim = target

\* findExistingPodForVolume, innermost loop: the path of the first mount named vname.
RECURSIVE FindMount(_, _)
FindMount_anyMount(mounts, vname) ==
    IF mounts = << >> THEN "" ELSE Head(mounts).path
FindMount(mounts, vname) ==
    IF mounts = << >> THEN ""
    ELSE IF Head(mounts).name = vname THEN Head(mounts).path
    ELSE FindMount(Tail(mounts), vname)

\* The first container, in spec order, with a mount named vname.
RECURSIVE FindContainer(_, _)
FindContainer(ctrs, vname) ==
    IF ctrs = << >> THEN NoHandle
    ELSE LET m == FindMount(Head(ctrs).mounts, vname)
         IN  IF m # "" THEN Handle("", Head(ctrs).name, m)
             ELSE FindContainer(Tail(ctrs), vname)

\* The first volume of the pod, in spec order, that is of claim target and that a
\* container mounts.
RECURSIVE FindVolume(_, _, _)
FindVolume(pod, vols, target) ==
    IF vols = << >> THEN NoHandle
    ELSE LET v == Head(vols)
             h == IF v.claim # "" /\ v.claim = target
                  THEN FindContainer(pod.ctrs, v.name) ELSE NoHandle
         IN  IF h # NoHandle THEN [h EXCEPT !.pod = pod.name]
             ELSE FindVolume(pod, Tail(vols), target)

PodMatch(pod, target) ==
    IF pod.phase = "Running" THEN FindVolume(pod, pod.vols, target) ELSE NoHandle

\* getVolumeInfo, line 598: the in-use branch is taken iff isVolumeInUse said so.
TakesInUseBranch_whenBound(volumeInUse, pvName) == pvName # ""
TakesInUseBranch(volumeInUse, pvName) == volumeInUse

(***************************************************************************)
(* The local state of an invocation.                                       *)
(***************************************************************************)
Fresh ==
    [pc |-> "idle", plan |-> << >>, cmd |-> "", src |-> "", dst |-> "", stage |-> "",
     vol |-> "", pvName |-> "", targetPVC |-> "", tv |-> "", kind |-> "",
     ret |-> "", i |-> 0, handle |-> NoHandle, err |-> "",
     srcH |-> NoHandle, dstH |-> NoHandle,
     \* what the invocation did, for the properties
     inUse |-> FALSE, path |-> "", snap |-> FALSE, findRan |-> FALSE,
     disc |-> {}, creates |-> {}, touched |-> {}, deletes |-> << >>, getErr |-> {},
     listErr |-> FALSE, rmErr |-> FALSE, delErr |-> {}, stale |-> FALSE,
     rejected |-> FALSE,
     faulted |-> FALSE, disturbed |-> FALSE, second |-> FALSE,
     prevH |-> NoHandle, prevCmd |-> "", timedOut |-> FALSE, execs |-> << >>]

NoLast == [vol |-> "", handle |-> NoHandle, cmd |-> ""]

\* The entry of getVolumeInfo(v, ...); l is the last successful direct
\* provisioning that nothing has disturbed since.
BeginResolve(r, v, l) ==
    [r EXCEPT !.pc = "gvi_lookup", !.vol = v, !.pvName = "", !.targetPVC = "",
              !.tv = "", !.kind = "", !.ret = "", !.i = 0, !.handle = NoHandle,
              !.err = "", !.inUse = FALSE, !.path = "", !.snap = FALSE,
              !.findRan = FALSE, !.disc = {}, !.creates = {}, !.getErr = {}, !.listErr = FALSE,
              !.stale = FALSE, !.rejected = FALSE,
              !.faulted = FALSE,
              !.disturbed = FALSE, !.second = (l.vol = v /\ v # ""),
              !.prevH = l.handle, !.prevCmd = l.cmd, !.timedOut = FALSE]

\* getVolumeInfo returns (h, nil) or ("", "", "", err).
ReturnOk(r, h, path) ==
    [r EXCEPT !.pc = "resolved", !.handle = h, !.err = "", !.path = path, !.i = 0]
ReturnErr(r, e) ==
    [r EXCEPT !.pc = "resolved", !.handle = NoHandle, !.err = e, !.i = 0]

\* A request to the control plane may fail transiently.
Faults == IF nfaults < MaxFaults THEN BOOLEAN ELSE {FALSE}
Step(p, r, f) ==
    /\ proc' = [proc EXCEPT ![p] = IF f THEN [r EXCEPT !.faulted = TRUE] ELSE r]
    /\ nfaults' = nfaults + (IF f THEN 1 ELSE 0)

\* The volumes discoverable through a running workload: the (pod, container,
\* path) triples of the running pods that have a volume of a claim bound to
\* pvName and a container that mounts that volume.
Discoverable(pvName) ==
    {Handle(o.name, o.ctrs[c].name, o.ctrs[c].mounts[m].path) :
        <<o, k, c, m>> \in
          {x \in pods \X (1..2) \X (1..2) \X (1..2) :
              /\ x[1].phase = "Running"
              /\ x[2] \in 1..Len(x[1].vols)
              /\ x[3] \in 1..Len(x[1].ctrs)
              /\ x[4] \in 1..Len(x[1].ctrs[x[3]].mounts)
              /\ x[1].vols[x[2]].claim \in BoundClaims(pvName)
              /\ x[1].ctrs[x[3]].mounts[x[4]].name = x[1].vols[x[2]].name}}

(***************************************************************************)
(* The volume access resolver: getVolumeInfo, isVolumeInUse,               *)
(* findExistingPodForVolume.                                               *)
(***************************************************************************)
cluster == <<lhvol, pvs, pvcs, pods>>
others == <<nenv, last, sw, cp, fsys>>
rest == <<nenv, sw, cp, fsys>>

\* The record of the last successful direct provisioning: set when getVolumeInfo
\* returns, forgotten by any later change of the cluster.
Track(p) ==
    last' = IF proc'[p].pc # "resolved" THEN last
            ELSE IF proc'[p].err = "" /\ proc'[p].path = "direct"
            THEN [vol |-> proc'[p].vol, handle |-> proc'[p].handle, cmd |-> proc'[p].cmd]
            ELSE NoLast

\* getLonghornVolume: the volume list may fail; the name may be absent.
Lookup_neverMisses(v, f) == IF f THEN "error" ELSE "found"
Lookup(v, f) == IF f THEN "error" ELSE IF v \in DOMAIN lhvol THEN "found" ELSE "notfound"
\* volume.PVName, line 588.
PVNameOf(v) == IF v \in DOMAIN lhvol THEN lhvol[v] ELSE ""

\* getVolumeInfo, lines 577-595 and 613-620, up to the first control-plane request.
GviLookup(p) ==
    /\ proc[p].pc = "gvi_lookup"
    /\ \E f \in Faults :
         LET r == proc[p] IN
         /\ Step(p,
                 IF Lookup(r.vol, f) # "found"
                 THEN ReturnErr(r, "NotFound")
                 ELSE IF PVNameOf(r.vol) # ""
                 THEN [r EXCEPT !.pvName = PVNameOf(r.vol), !.pc = "inuse_pvcs"]
                 ELSE IF TakesInUseBranch(FALSE, "")
                 THEN [r EXCEPT !.pc = "find_pvcs"]
                 ELSE [r EXCEPT !.pc = "ctpv_get", !.ret = "gvi"],
                 f)
    /\ Track(p)
    /\ UNCHANGED <<cluster, rest>>

\* After isVolumeInUse returned false (line 613): pvName # "" here, so no
\* createTemporaryPV at line 616.
AfterInUse(r, inUse) ==
    IF TakesInUseBranch(inUse, r.pvName)
    THEN [r EXCEPT !.inUse = inUse, !.pc = "find_pvcs"]
    ELSE [r EXCEPT !.inUse = inUse, !.pc = "prov_getvol"]

\* isVolumeInUse, lines 90-108: list the claims, take the one bound to the PV.
IsVolumeInUseClaims(p) ==
    /\ proc[p].pc = "inuse_pvcs"
    /\ \E f \in Faults :
         LET r == [proc[p] EXCEPT !.listErr = f] IN
         IF f THEN Step(p, ReturnErr(r, "ListFailed"), f)
         ELSE IF BoundClaims(r.pvName) = {} THEN Step(p, AfterInUse(r, FALSE), f)
         ELSE \E t \in BoundClaims(r.pvName) :
                 Step(p, [r EXCEPT !.targetPVC = t, !.pc = "inuse_pods"], f)
    /\ Track(p)
    /\ UNCHANGED <<cluster, rest>>

\* isVolumeInUse, lines 110-127: list the pods, look for a running user of the claim.
IsVolumeInUsePods(p) ==
    /\ proc[p].pc = "inuse_pods"
    /\ \E f \in Faults :
         LET r == [proc[p] EXCEPT !.listErr = f] IN
         IF f THEN Step(p, ReturnErr(r, "ListFailed"), f)
         ELSE Step(p, AfterInUse(r, \E o \in pods : PodUsesClaim(o, r.targetPVC)), f)
    /\ Track(p)
    /\ UNCHANGED <<cluster, rest>>

\* getVolumeInfo, lines 608-610: findExistingPodForVolume returned an error.
Fallback_returnError(r) == ReturnErr(r, "NoAccessPath")
Fallback(r) == [r EXCEPT !.snap = TRUE, !.pc = "snap_getvol"]

\* findExistingPodForVolume, lines 129-147.
FindExistingClaims(p) ==
    /\ proc[p].pc = "find_pvcs"
    /\ \E f \in Faults :
         LET r == [proc[p] EXCEPT !.findRan = TRUE, !.disc = Discoverable(proc[p].pvName),
                                  !.listErr = f] IN
         IF f \/ BoundClaims(r.pvName) = {} THEN Step(p, Fallback(r), f)
         ELSE \E t \in BoundClaims(r.pvName) :
                 Step(p, [r EXCEPT !.targetPVC = t, !.pc = "find_pods"], f)
    /\ Track(p)
    /\ UNCHANGED <<cluster, rest>>

\* findExistingPodForVolume, lines 149-173, and the return at lines 603-606.
FindExistingPods(p) ==
    /\ proc[p].pc = "find_pods"
    /\ \E f \in Faults :
         LET r == [proc[p] EXCEPT !.disc = Discoverable(proc[p].pvName), !.listErr = f]
             found == {PodMatch(o, r.targetPVC) : o \in pods} \ {NoHandle}
         IN
         IF f \/ found = {} THEN Step(p, Fallback(r), f)
         ELSE \E h \in found : Step(p, ReturnOk(r, h, "existing"), f)
    /\ Track(p)
    /\ UNCHANGED <<cluster, rest>>

(***************************************************************************)
(* The ephemeral resource provisioner.  createTemporaryPodForLonghorn      *)
(* (kind "direct", names of the volume) and createTemporaryPodForRWXVolume *)
(* (kind "indirect", names of lhc-temp-rwx-<volume>) are the same code     *)
(* from the claim lookup on; r.tv is the name the object names derive from. *)
(***************************************************************************)
Obj(kind, name) == [kind |-> kind, name |-> name]
Created(r, kind, name) ==
    [r EXCEPT !.creates = @ \cup {Obj(kind, name)}, !.touched = @ \cup {Obj(kind, name)}]
Reused(r, kind, name) == [r EXCEPT !.touched = @ \cup {Obj(kind, name)}]
\* Labels: "app": "lhc-temp" in every object the provisioner builds (lines 213-215,
\* 264-266, 315-317, 814-816, 865-867, 1007-1009).
CarriesLabel_notPV(kind) == kind # "pv"
CarriesLabel(kind) == TRUE
\* The Get of a get-or-create answered (f) with an error other than NotFound.
Looked(r, kind, name, f) == IF f THEN [r EXCEPT !.getErr = @ \cup {Obj(kind, name)}] ELSE r

\* The error of a Create ends the provisioning (lines 241-243, 283-285, 350-352,
\* 833-835, 901-903, 1035-1037).  o: the object asked for; exists: the control
\* plane rejected the name as existing; cont: the step after a success.
CreateRefused_goesOn(r, o, exists, cont) ==
    [cont EXCEPT !.rejected = @ \/ exists, !.touched = r.touched]
CreateRefused(r, o, exists, cont) ==
    ReturnErr([r EXCEPT !.creates = @ \cup {o}, !.rejected = @ \/ exists], "ProvisionFailed")

\* The lookups that decide whether to create: `if err == nil` (PV, lines 205
\* and 993), `if err != nil` (claim, lines 258 and 808), `err == nil && phase ==
\* Running` (pod, lines 306 and 856).  f: the Get failed transiently.
PVPresent(name, f) == ~f /\ HasPV(name)
ClaimPresent_never(name, f) == FALSE
ClaimPresent(name, f) == ~f /\ HasPVC(name)
PodReusable_never(name, f) == FALSE
PodReusable_anyPhase(name, f) == ~f /\ HasPod(name)
PodReusable(name, f) == ~f /\ HasPod(name) /\ ThePod(name).phase = "Running"

\* createSnapshotBasedAccess, lines 175-188.
SnapGetVolume(p) ==
    /\ proc[p].pc = "snap_getvol"
    /\ \E f \in Faults :
         LET r == proc[p] IN
         Step(p, IF Lookup(r.vol, f) # "found" THEN ReturnErr(r, "NoAccessPath")
                 ELSE [r EXCEPT !.tv = RwxName(r.vol), !.kind = "indirect",
                                !.pc = "rwxpv_get"], f)
    /\ Track(p)
    /\ UNCHANGED <<cluster, rest>>

\* createTemporaryRWXPV, lines 200-207.
RwxPVGet(p) ==
    /\ proc[p].pc = "rwxpv_get"
    /\ \E f \in Faults :
         LET r == Looked(proc[p], "pv", TempPV(proc[p].tv), f) IN
         Step(p, IF PVPresent(TempPV(r.tv), f)
                 THEN [Reused(r, "pv", TempPV(r.tv)) EXCEPT !.pc = "pvc_get"]
                 ELSE [r EXCEPT !.pc = "rwxpv_create"], f)
    /\ Track(p)
    /\ UNCHANGED <<cluster, rest>>

\* createTemporaryRWXPV, lines 209-246: the control plane rejects an existing name.
RwxPVCreate(p) ==
    /\ proc[p].pc = "rwxpv_create"
    /\ \E f \in Faults :
         LET r == proc[p]
             n == TempPV(r.tv) IN
         IF f \/ HasPV(n)
         THEN /\ Step(p, CreateRefused(r, Obj("pv", n), ~f,
                                       [Created(r, "pv", n) EXCEPT !.pc = "pvc_get"]), f)
              /\ pvs' = pvs
         ELSE /\ Step(p, [Created(r, "pv", n) EXCEPT !.pc = "pvc_get"], f)
              /\ pvs' = pvs \cup {MkPV(n, r.tv, CarriesLabel("pv"))}
    /\ Track(p)
    /\ UNCHANGED <<lhvol, pvcs, pods, rest>>

\* createTemporaryPodForLonghorn, lines 786-797, up to the call of createTemporaryPV.
ProvGetVolume(p) ==
    /\ proc[p].pc = "prov_getvol"
    /\ \E f \in Faults :
         LET r == [proc[p] EXCEPT !.stale = \E o \in pods : PodUsesClaim(o, proc[p].targetPVC)] IN
         Step(p, IF Lookup(r.vol, f) # "found" THEN ReturnErr(r, "ProvisionFailed")
                 ELSE [r EXCEPT !.tv = r.vol, !.kind = "direct", !.ret = "prov",
                                !.pc = "ctpv_get"], f)
    /\ Track(p)
    /\ UNCHANGED <<cluster, rest>>

\* The return of createTemporaryPV to its caller: getVolumeInfo (line 616), which
\* goes on to createTemporaryPodForLonghorn, or createTemporaryPodForLonghorn
\* (line 794), which goes on to the claim.
CtpvReturn(r) ==
    IF r.ret = "gvi" THEN [r EXCEPT !.pc = "prov_getvol"] ELSE [r EXCEPT !.pc = "pvc_get"]

\* createTemporaryPV, lines 988-995.
CreateTemporaryPVGet(p) ==
    /\ proc[p].pc = "ctpv_get"
    /\ \E f \in Faults :
         LET r == Looked(proc[p], "pv", TempPV(proc[p].vol), f) IN
         Step(p, IF PVPresent(TempPV(r.vol), f)
                 THEN CtpvReturn(Reused(r, "pv", TempPV(r.vol)))
                 ELSE [r EXCEPT !.pc = "ctpv_getvol"], f)
    /\ Track(p)
    /\ UNCHANGED <<cluster, rest>>

\* createTemporaryPV, lines 997-1001.
CreateTemporaryPVGetVolume(p) ==
    /\ proc[p].pc = "ctpv_getvol"
    /\ \E f \in Faults :
         LET r == proc[p] IN
         Step(p, IF Lookup(r.vol, f) # "found" THEN ReturnErr(r, "ProvisionFailed")
                 ELSE [r EXCEPT !.pc = "ctpv_create"], f)
    /\ Track(p)
    /\ UNCHANGED <<cluster, rest>>

\* createTemporaryPV, lines 1003-1040.
CreateTemporaryPVCreate(p) ==
    /\ proc[p].pc = "ctpv_create"
    /\ \E f \in Faults :
         LET r == proc[p]
             n == TempPV(r.vol) IN
         IF f \/ HasPV(n)
         THEN /\ Step(p, CreateRefused(r, Obj("pv", n), ~f,
                                       CtpvReturn(Created(r, "pv", n))), f)
              /\ pvs' = pvs
         ELSE /\ Step(p, CtpvReturn(Created(r, "pv", n)), f)
              /\ pvs' = pvs \cup {MkPV(n, r.vol, CarriesLabel("pv"))}
    /\ Track(p)
    /\ UNCHANGED <<lhvol, pvcs, pods, rest>>

\* Lines 806-808 (256-258): look the claim up.
ClaimGet(p) ==
    /\ proc[p].pc = "pvc_get"
    /\ \E f \in Faults :
         LET r == Looked(proc[p], "pvc", TempPVC(proc[p].tv), f) IN
         Step(p, IF ClaimPresent(TempPVC(r.tv), f)
                 THEN [Reused(r, "pvc", TempPVC(r.tv)) EXCEPT !.pc = "pod_get"]
                 ELSE [r EXCEPT !.pc = "pvc_create"], f)
    /\ Track(p)
    /\ UNCHANGED <<cluster, rest>>

\* Lines 809-838 (259-288): create the claim, pre-bound to the temporary PV.
ClaimCreate(p) ==
    /\ proc[p].pc = "pvc_create"
    /\ \E f \in Faults :
         LET r == proc[p]
             n == TempPVC(r.tv) IN
         IF f \/ HasPVC(n)
         THEN /\ Step(p, CreateRefused(r, Obj("pvc", n), ~f,
                                       [Created(r, "pvc", n) EXCEPT !.pc = "pvc_poll", !.i = 0]), f)
              /\ pvcs' = pvcs
         ELSE /\ Step(p, [Created(r, "pvc", n) EXCEPT !.pc = "pvc_poll", !.i = 0], f)
              /\ pvcs' = pvcs \cup {MkPVC(n, TempPV(r.tv), "Pending", CarriesLabel("pvc"))}
    /\ Track(p)
    /\ UNCHANGED <<lhvol, pvs, pods, rest>>

\* Lines 851-854 (301-304): the loop over, bound or not, the code goes on to the
\* lookup of the pod.
ClaimTimeout_fails(r) == [ReturnErr(r, "ProvisionFailed") EXCEPT !.timedOut = TRUE]
ClaimTimeout(r) == [r EXCEPT !.pc = "pod_get", !.i = 0, !.timedOut = TRUE]

\* Lines 839-851 (289-301): one iteration of the wait for the claim to be bound.
\* When the 60 iterations are over the code goes on to the pod.
ClaimPoll(p) ==
    /\ proc[p].pc = "pvc_poll"
    /\ \E f \in Faults :
         LET r == proc[p]
             n == TempPVC(r.tv) IN
         Step(p, IF f \/ ~HasPVC(n) THEN ReturnErr(r, "GetFailed")
                 ELSE IF ThePVC(n).phase = "Bound" THEN [r EXCEPT !.pc = "pod_get", !.i = 0]
                 ELSE IF r.i + 1 < PVCPollMax THEN [r EXCEPT !.i = @ + 1]
                 ELSE ClaimTimeout(r), f)
    /\ Track(p)
    /\ UNCHANGED <<cluster, rest>>

\* Lines 854-858 (304-308): reuse the pod when it exists and is running.
PodGet(p) ==
    /\ proc[p].pc = "pod_get"
    /\ \E f \in Faults :
         LET n == TempPod(proc[p].tv)
             r == Looked(proc[p], "pod", n, f) IN
         Step(p, IF PodReusable(n, f)
                 THEN ReturnOk(Reused(r, "pod", n), Handle(n, ContainerName, MountPath), r.kind)
                 ELSE [r EXCEPT !.pc = "pod_create"], f)
    /\ Track(p)
    /\ UNCHANGED <<cluster, rest>>

\* Lines 860-903 (310-353): create the pod.
PodCreate(p) ==
    /\ proc[p].pc = "pod_create"
    /\ \E f \in Faults :
         LET r == proc[p]
             n == TempPod(r.tv) IN
         IF f \/ HasPod(n)
         THEN /\ Step(p, CreateRefused(r, Obj("pod", n), ~f,
                                       [Created(r, "pod", n) EXCEPT !.pc = "pod_poll", !.i = 0]), f)
              /\ pods' = pods
         ELSE /\ Step(p, [Created(r, "pod", n) EXCEPT !.pc = "pod_poll", !.i = 0], f)
              /\ pods' = pods \cup {MkPod(n, "Pending", TempPodSpec(TempPVC(r.tv)),
                                         CarriesLabel("pod"))}
    /\ Track(p)
    /\ UNCHANGED <<lhvol, pvs, pvcs, rest>>

\* Line 920 (370): the 120 iterations over, "did not become ready in time".
PodTimeout_keepsPolling(r) == [r EXCEPT !.i = 0]
PodTimeout(r) == ReturnErr(r, "NotReady")

\* Lines 905-920 (355-370): one iteration of the wait for the pod to be running.
PodPoll(p) ==
    /\ proc[p].pc = "pod_poll"
    /\ \E f \in Faults :
         LET r == proc[p]
             n == TempPod(r.tv) IN
         Step(p, IF f \/ ~HasPod(n) THEN ReturnErr(r, "GetFailed")
                 ELSE IF ThePod(n).phase = "Running"
                 THEN ReturnOk(r, Handle(n, ContainerName, MountPath), r.kind)
                 ELSE IF r.i + 1 < PodPollMax THEN [r EXCEPT !.i = @ + 1]
                 ELSE PodTimeout(r), f)
    /\ Track(p)
    /\ UNCHANGED <<cluster, rest>>

(***************************************************************************)
(* The commands: main, ListVolumeContents, DownloadVolume, CopyVolume and  *)
(* the cleanup of main after a copy.                                       *)
(***************************************************************************)
VolArgs == Vols \cup {Ghost}

\* log.Fatalf, or the return of main.
Exit(r, e) == [r EXCEPT !.pc = "done", !.err = e]

\* main, lines 1101-1174: parse the command line and call the command, which
\* calls getVolumeInfo first.  The command lines of a process are its plan, one
\* invocation after the other.
Command(cmd, s, d) == [cmd |-> cmd, src |-> s, dst |-> d]
Start(p) ==
    /\ proc[p].pc \in {"idle", "done"}
    /\ proc[p].plan # << >>
    /\ LET c == Head(proc[p].plan) IN
       proc' = [proc EXCEPT ![p] =
           BeginResolve([Fresh EXCEPT !.plan = Tail(proc[p].plan), !.cmd = c.cmd,
                                      !.src = c.src, !.dst = c.dst,
                                      !.stage = IF c.cmd = "copy" THEN "src" ELSE "one"],
                        c.src, last)]
    /\ UNCHANGED <<cluster, nfaults, others>>

\* ListVolumeContents, lines 478-493; the remote command succeeds or fails.
ListVolumeContents(p) ==
    /\ proc[p].pc = "resolved" /\ proc[p].cmd = "contents"
    /\ LET r == proc[p] IN
       /\ last' = last
       /\ IF r.err # "" THEN proc' = [proc EXCEPT ![p] = Exit(r, r.err)]
          ELSE \E ok \in BOOLEAN :
                 proc' = [proc EXCEPT ![p] =
                     Exit([r EXCEPT !.execs = Append(@, <<"find", r.handle>>)],
                          IF ok THEN "" ELSE "ExecFailed")]
    /\ UNCHANGED <<cluster, nfaults, nenv, sw, cp, fsys>>

\* DownloadVolume, lines 495-520, and main, line 1161.
DownloadVolume(p) ==
    /\ proc[p].pc = "resolved" /\ proc[p].cmd = "download"
    /\ LET r == proc[p] IN
       /\ last' = last
       /\ IF r.err # "" THEN proc' = [proc EXCEPT ![p] = Exit(r, r.err)]
          ELSE \/ proc' = [proc EXCEPT ![p] = Exit(r, "CreateFileFailed")]
               \/ \E ok \in BOOLEAN :
                    proc' = [proc EXCEPT ![p] =
                        Exit([r EXCEPT !.execs = Append(@, <<"tar-czf", r.handle>>)],
                             IF ok THEN "" ELSE "ExecFailed")]
    /\ UNCHANGED <<cluster, nfaults, nenv, sw, cp, fsys>>

\* CopyVolume, lines 525-527 and 530-532: an error of getVolumeInfo ends
\* CopyVolume; cont is the step that follows a success.
CopyResolved_ignoresError(r, cont) == cont
CopyResolved(r, cont) == IF r.err # "" THEN Exit(r, r.err) ELSE cont

\* CopyVolume, lines 522-529: the source is resolved; resolve the destination.
CopySourceResolved(p) ==
    /\ proc[p].pc = "resolved" /\ proc[p].cmd = "copy" /\ proc[p].stage = "src"
    /\ LET r == proc[p] IN
       /\ last' = last
       /\ proc' = [proc EXCEPT ![p] =
              CopyResolved(r, BeginResolve([r EXCEPT !.srcH = r.handle, !.stage = "dst"],
                                           r.dst, last))]
    /\ UNCHANGED <<cluster, nfaults, nenv, sw, cp, fsys>>

\* CopyVolume, lines 529-539: the destination is resolved.
CopyDestResolved(p) ==
    /\ proc[p].pc = "resolved" /\ proc[p].cmd = "copy" /\ proc[p].stage = "dst"
    /\ LET r == proc[p] IN
       /\ last' = last
       /\ proc' = [proc EXCEPT ![p] =
              CopyResolved(r, [r EXCEPT !.dstH = r.handle, !.pc = "cv_clear"])]
    /\ UNCHANGED <<cluster, nfaults, nenv, sw, cp, fsys>>

\* The files of a mount root are records [name, from]: a name is a sequence of
\* characters, from is the volume the content was written on.
FileNamesOf(files) == {f.name : f \in files}

\* Pathname expansion of the shell: * is any sequence, ? any character, a
\* letter itself; a name that begins with a dot is matched only by a pattern that
\* begins with a dot.  "[^.]" is a character that is no dot in the shells that
\* read ^ as the complement of the class (negates), and one of ^ and . in the
\* others.
RECURSIVE Glob(_, _, _)
Glob(pat, name, negates) ==
    IF pat = << >> THEN name = << >>
    ELSE IF Head(pat) = "*"
      THEN Glob(Tail(pat), name, negates)
             \/ (name # << >> /\ Glob(pat, Tail(name), negates))
    ELSE /\ name # << >>
         /\ CASE Head(pat) = "?" -> TRUE
              [] Head(pat) = "[^.]" ->
                   IF negates THEN Head(name) # "." ELSE Head(name) \in {"^", "."}
              [] OTHER -> Head(name) = Head(pat)
         /\ Glob(Tail(pat), Tail(name), negates)

\* Line 545: rm -rf M/* M/.[^.] M/..?*
ClearPatterns == << << "*" >>, << ".", "[^.]" >>, << ".", ".", "?", "*" >> >>
Cleared(name, negates) ==
    \E k \in DOMAIN ClearPatterns :
        /\ Head(name) = "." => Head(ClearPatterns[k]) = "."
        /\ Glob(ClearPatterns[k], name, negates)

\* tar -xf of the archive of `from` over `onto`: the files of the archive
\* replace those of the same name.
Extract(from, onto) == {f \in onto : f.name \notin FileNamesOf(from)} \cup from

\* CopyVolume, lines 546-548: a failed clear ends CopyVolume.
AfterClear_ignoresError(r, ok) == [r EXCEPT !.pc = "cv_stream"]
AfterClear(r, ok) == IF ok THEN [r EXCEPT !.pc = "cv_stream"] ELSE Exit(r, "ClearFailed")

\* CopyVolume, lines 541-548: clear the destination directory.  rm removes the
\* operands it can even when it fails.
CopyClear(p) ==
    /\ proc[p].pc = "cv_clear"
    /\ LET r == [proc[p] EXCEPT !.execs = Append(@, <<"rm", proc[p].dstH>>)] IN
       \E ok \in BOOLEAN :
         /\ proc' = [proc EXCEPT ![p] = AfterClear([r EXCEPT !.rmErr = ~ok], ok)]
         /\ \E gone \in SUBSET fsys.files[r.dst] :
              /\ ok => gone = {f \in fsys.files[r.dst] : Cleared(f.name, fsys.negates)}
              /\ \A f \in gone : Cleared(f.name, fsys.negates)
              /\ fsys' = [fsys EXCEPT !.files[r.dst] = @ \ gone]
    /\ UNCHANGED <<cluster, nfaults, nenv, last, sw, cp>>

\* CopyVolume, lines 550-575: list the source, stream the copy (here by its
\* result; SpecEngine has the two tasks of streamCopyBetweenPods), list the
\* destination.  A failed stream has extracted some of the source's files.
CopyStream(p) ==
    /\ proc[p].pc = "cv_stream"
    /\ LET r == [proc[p] EXCEPT !.execs = Append(@, <<"stream", proc[p].srcH, proc[p].dstH>>)] IN
       \E ok \in BOOLEAN :
         /\ proc' = [proc EXCEPT ![p] =
               IF ok THEN [r EXCEPT !.pc = "cleanup", !.i = 0]
               ELSE Exit(r, "StreamCopyFailed")]
         /\ \E part \in SUBSET fsys.files[r.src] :
              /\ ok => part = fsys.files[r.src]
              /\ fsys' = [fsys EXCEPT !.files[r.dst] = Extract(part, @)]
    /\ UNCHANGED <<cluster, nfaults, nenv, last, sw, cp>>

\* The six delete requests of main, lines 1178-1180: cleanupTemporaryResources
\* of the source, then of the destination; each deletes the pod, the claim and
\* the PV named after the volume.
CleanupTargets(r) ==
    << Obj("pod", TempPod(r.src)), Obj("pvc", TempPVC(r.src)), Obj("pv", TempPV(r.src)),
       Obj("pod", TempPod(r.dst)), Obj("pvc", TempPVC(r.dst)), Obj("pv", TempPV(r.dst)) >>

\* The control plane's answer to a delete request: the object is removed, unless
\* the request fails (f) or names no object (NotFound).
Without(set, name, f) == IF f THEN set ELSE {o \in set : o.name # name}

\* The object is there: a delete request that names no object is answered
\* with NotFound, an error.
Present(o) ==
    CASE o.kind = "pod" -> HasPod(o.name)
      [] o.kind = "pvc" -> HasPVC(o.name)
      [] o.kind = "pv" -> HasPV(o.name)

\* Lines 1049-1051 (1055-1057, 1061-1063): the error of a delete request is
\* printed as a warning and the next request follows.
CleanupContinues_unlessFailed(e) == ~e
CleanupContinues(e) == TRUE

\* cleanupTemporaryResources, lines 1042-1066: one delete request; an error is a
\* warning.  After the last one, main prints "Copy completed" (line 1182).
CleanupDelete(p) ==
    /\ proc[p].pc = "cleanup"
    /\ \E f \in Faults :
         LET r == proc[p]
             t == CleanupTargets(r)[r.i + 1]
             r2 == [r EXCEPT !.deletes = Append(@, t),
                             !.delErr = IF f \/ ~Present(t) THEN @ \cup {r.i + 1} ELSE @]
         IN
         /\ Step(p, IF ~CleanupContinues(f \/ ~Present(t)) THEN Exit([r2 EXCEPT !.i = 0], "CleanupFailed")
                    ELSE IF r.i + 1 < Len(CleanupTargets(r)) THEN [r2 EXCEPT !.i = @ + 1]
                    ELSE Exit([r2 EXCEPT !.i = 0], ""), f)
         /\ pods' = IF t.kind = "pod" THEN Without(pods, t.name, f) ELSE pods
         /\ pvcs' = IF t.kind = "pvc" THEN Without(pvcs, t.name, f) ELSE pvcs
         /\ pvs' = IF t.kind = "pv" THEN Without(pvs, t.name, f) ELSE pvs
    /\ last' = NoLast
    /\ UNCHANGED <<lhvol, nenv, sw, cp, fsys>>

(***************************************************************************)
(* The environment: the control plane's controllers and the operators'     *)
(* workloads.  Every environment step marks the running invocations as     *)
(* disturbed and forgets the last undisturbed provisioning.                *)
(***************************************************************************)
Disturb == proc' = [p \in Procs |-> [proc[p] EXCEPT !.disturbed = TRUE]]

\* A pending claim whose PV exists becomes bound.
EnvBind ==
    /\ \E c \in pvcs :
         /\ c.phase = "Pending" /\ HasPV(c.vol)
         /\ pvcs' = (pvcs \ {c}) \cup {[c EXCEPT !.phase = "Bound"]}
    /\ Disturb /\ last' = NoLast
    /\ UNCHANGED <<lhvol, pvs, pods, nfaults, nenv, sw, cp, fsys>>

\* A pending pod starts running.
EnvPodRunning ==
    /\ \E o \in pods :
         /\ o.phase = "Pending"
         /\ pods' = (pods \ {o}) \cup {[o EXCEPT !.phase = "Running"]}
    /\ Disturb /\ last' = NoLast
    /\ UNCHANGED <<lhvol, pvs, pvcs, nfaults, nenv, sw, cp, fsys>>

\* A running pod ends (a workload stops; the temporary pod's sleep is over).
EnvPodExit ==
    /\ nenv < MaxEnv
    /\ \E o \in pods :
         /\ o.phase = "Running"
         /\ pods' = (pods \ {o}) \cup {[o EXCEPT !.phase = "Succeeded"]}
    /\ nenv' = nenv + 1
    /\ Disturb /\ last' = NoLast
    /\ UNCHANGED <<lhvol, pvs, pvcs, nfaults, sw, cp, fsys>>

\* A workload that mounts the claim bound to a volume's PV starts.
EnvWorkloadStart ==
    /\ nenv < MaxEnv
    /\ \E v \in Vols, shape \in Shapes :
         /\ OpPVC(v) \in BoundClaims(OpPV(v))
         /\ ~HasPod(OpPod(v))
         /\ pods' = pods \cup {MkPod(OpPod(v), "Running", WorkloadSpec(shape, OpPVC(v)), FALSE)}
    /\ nenv' = nenv + 1
    /\ Disturb /\ last' = NoLast
    /\ UNCHANGED <<lhvol, pvs, pvcs, nfaults, sw, cp, fsys>>

(***************************************************************************)
(* The initial states: each volume is unbound, bound to a PV that no claim *)
(* uses, bound and claimed, or claimed and mounted by a running workload.  *)
(***************************************************************************)
Configs == {"unbound", "bound", "claimed"} \cup Shapes

ConfigPVs(cfg) == {MkPV(OpPV(v), v, FALSE) : v \in {w \in Vols : cfg[w] # "unbound"}}
ConfigPVCs(cfg) ==
    {MkPVC(OpPVC(v), OpPV(v), "Bound", FALSE) :
        v \in {w \in Vols : cfg[w] \notin {"unbound", "bound"}}}
ConfigPods(cfg) ==
    {MkPod(OpPod(v), "Running", WorkloadSpec(cfg[v], OpPVC(v)), FALSE) :
        v \in {w \in Vols : cfg[w] \in Shapes}}

SwOff ==
    [pc |-> "off", lists |-> [k \in {"pod", "pvc", "pv"} |-> << >>], phase |-> 0, k |-> 0,
     prompted |-> FALSE, response |-> << >>, deletes |-> << >>, result |-> "",
     failed |-> {}]
CpOff ==
    [pc |-> "off", todo |-> 0, got |-> 0, pipe |-> 0, wclosed |-> FALSE, prod |-> "off", cons |-> "off",
     prodErr |-> FALSE, consErr |-> FALSE, eof |-> FALSE, errChan |-> << >>,
     received |-> 0, ret |-> ""]
FsOff == [files |-> [v \in Vols |-> {}], negates |-> TRUE]

InitCluster(cfgs) ==
    \E cfg \in cfgs :
       /\ lhvol = [v \in Vols |-> IF cfg[v] = "unbound" THEN "" ELSE OpPV(v)]
       /\ pvs = ConfigPVs(cfg)
       /\ pvcs = ConfigPVCs(cfg)
       /\ pods = ConfigPods(cfg)

\* One process that runs one of the plans.
InitTool(plans) ==
    /\ \E pl \in plans :
         proc = [p \in Procs |-> IF p = 1 THEN [Fresh EXCEPT !.plan = pl]
                                 ELSE [Fresh EXCEPT !.pc = "off"]]
    /\ nfaults = 0 /\ nenv = 0 /\ last = NoLast
    /\ sw = SwOff /\ cp = CpOff /\ fsys = FsOff

Resolver(p) ==
    \/ GviLookup(p) \/ IsVolumeInUseClaims(p) \/ IsVolumeInUsePods(p)
    \/ FindExistingClaims(p) \/ FindExistingPods(p)

Provisioner(p) ==
    \/ SnapGetVolume(p) \/ RwxPVGet(p) \/ RwxPVCreate(p)
    \/ ProvGetVolume(p) \/ CreateTemporaryPVGet(p) \/ CreateTemporaryPVGetVolume(p)
    \/ CreateTemporaryPVCreate(p)
    \/ ClaimGet(p) \/ ClaimCreate(p) \/ ClaimPoll(p)
    \/ PodGet(p) \/ PodCreate(p) \/ PodPoll(p)

CopyCommand(p) ==
    \/ CopySourceResolved(p) \/ CopyDestResolved(p) \/ CopyClear(p) \/ CopyStream(p)
    \/ CleanupDelete(p)

Env == EnvBind \/ EnvPodRunning \/ EnvPodExit \/ EnvWorkloadStart

(***************************************************************************)
(* Spec: one contents command, on volume a in any of its configurations    *)
(* (beside a volume b that is unbound or mounted by a workload of its own) *)
(* or on a name that is no volume.                                         *)
(***************************************************************************)
Init ==
    /\ InitCluster({cfg \in [Vols -> Configs] : cfg["b"] \in {"unbound", "plain"}})
    /\ InitTool({<< Command("contents", v, v) >> : v \in {"a", Ghost}})

Next ==
    \/ \E p \in Procs : Start(p) \/ Resolver(p) \/ Provisioner(p) \/ ListVolumeContents(p)
    \/ Env

Spec == Init /\ [][Next]_vars

(***************************************************************************)
(* SpecLive: Spec, where an invocation that can take a step takes one.     *)
(* Nothing obliges the environment to bind a claim or to start a pod.      *)
(***************************************************************************)
ToolStep == \E p \in Procs : Start(p) \/ Resolver(p) \/ Provisioner(p) \/ ListVolumeContents(p)
SpecLive == Init /\ [][Next]_vars /\ WF_vars(ToolStep)

(***************************************************************************)
(* SpecReuse: two commands, contents or download, one after the other on   *)
(* the same volume.  The workloads neither start nor stop meanwhile.       *)
(***************************************************************************)
InitReuse ==
    /\ InitCluster({cfg \in [Vols -> Configs] : cfg["b"] = "unbound"})
    /\ InitTool({<< Command(c1, "a", "a"), Command(c2, "a", "a") >> :
                   <<c1, c2>> \in {"contents", "download"} \X {"contents", "download"}})

NextReuse ==
    \/ \E p \in Procs : \/ Start(p) \/ Resolver(p) \/ Provisioner(p)
                        \/ ListVolumeContents(p) \/ DownloadVolume(p)
    \/ EnvBind \/ EnvPodRunning

SpecReuse == InitReuse /\ [][NextReuse]_vars

(***************************************************************************)
(* SpecTwice: two contents commands, one after the other, on volume a,     *)
(* whose PV is claimed; a workload that uses the claim may start or stop   *)
(* at any time.                                                            *)
(***************************************************************************)
InitTwice ==
    /\ InitCluster({cfg \in [Vols -> {"unbound", "claimed", "unmounted"}] :
                       cfg["a"] # "unbound" /\ cfg["b"] = "unbound"})
    /\ InitTool({<< Command("contents", "a", "a"), Command("contents", "a", "a") >>})

NextTwice ==
    \/ \E p \in Procs : Start(p) \/ Resolver(p) \/ Provisioner(p) \/ ListVolumeContents(p)
    \/ Env

SpecTwice == InitTwice /\ [][NextTwice]_vars

(***************************************************************************)
(* SpecRace: two invocations of the contents command at the same time, on  *)
(* the same volume, which is bound to no PV: both take the direct          *)
(* provisioning.  Every request is answered; a create of an existing name  *)
(* is rejected.                                                            *)
(***************************************************************************)
InitRace ==
    /\ InitCluster({[v \in Vols |-> "unbound"]})
    /\ proc = [p \in Procs |-> [Fresh EXCEPT !.plan = << Command("contents", "a", "a") >>]]
    /\ nfaults = MaxFaults /\ nenv = 0 /\ last = NoLast
    /\ sw = SwOff /\ cp = CpOff /\ fsys = FsOff

NextRace ==
    \/ \E p \in Procs :
          \/ Start(p) \/ GviLookup(p) \/ ProvGetVolume(p)
          \/ CreateTemporaryPVGet(p) \/ CreateTemporaryPVGetVolume(p) \/ CreateTemporaryPVCreate(p)
          \/ ClaimGet(p) \/ ClaimCreate(p) \/ ClaimPoll(p)
          \/ PodGet(p) \/ PodCreate(p) \/ PodPoll(p)
          \/ ListVolumeContents(p)
    \/ EnvBind \/ EnvPodRunning

SpecRace == InitRace /\ [][NextRace]_vars

(***************************************************************************)
(* SpecCopyCmd: one copy command between any two volume names; each volume *)
(* is unbound (direct provisioning), mounted by a workload (existing pod)  *)
(* or in use by a workload without a mount (indirect access).  The         *)
(* workloads neither start nor stop during the command.                    *)
(***************************************************************************)
CopyConfigs == {"unbound", "plain", "unmounted"}
InitCopyCmd ==
    /\ InitCluster([Vols -> CopyConfigs])
    /\ InitTool({<< Command("copy", s, d) >> : <<s, d>> \in VolArgs \X VolArgs})

NextCopyCmd ==
    \/ \E p \in Procs : Start(p) \/ Resolver(p) \/ Provisioner(p) \/ CopyCommand(p)
    \/ EnvBind \/ EnvPodRunning

SpecCopyCmd == InitCopyCmd /\ [][NextCopyCmd]_vars

(***************************************************************************)
(* SpecFiles: one copy command from volume a to volume b, each mounted by  *)
(* a running workload, every request to the control plane answered.  The   *)
(* two volumes hold any few files whose names are made of dots and         *)
(* letters; the shell of the destination's container is either kind.       *)
(***************************************************************************)
MaxName == 3
MaxSrcFiles == 1
MaxDstFiles == 2
NameChars == {".", "a"}
FileNames ==
    UNION {[1..n -> NameChars] : n \in 1..MaxName} \ { << "." >>, << ".", "." >> }
FilesOn(v, max) ==
    {{[name |-> n, from |-> v] : n \in ns} :
        ns \in {x \in SUBSET FileNames : Cardinality(x) <= max}}

InitFiles ==
    /\ InitCluster({[v \in Vols |-> "plain"]})
    /\ proc = [p \in Procs |-> IF p = 1 THEN [Fresh EXCEPT !.plan = << Command("copy", "a", "b") >>]
                               ELSE [Fresh EXCEPT !.pc = "off"]]
    /\ nfaults = MaxFaults /\ nenv = 0 /\ last = NoLast
    /\ sw = SwOff /\ cp = CpOff
    /\ \E fa \in FilesOn("a", MaxSrcFiles), fb \in FilesOn("b", MaxDstFiles), neg \in BOOLEAN :
         fsys = [files |-> [v \in Vols |-> IF v = "a" THEN fa ELSE fb], negates |-> neg]

NextFiles == \E p \in Procs : Start(p) \/ Resolver(p) \/ CopyCommand(p)

SpecFiles == InitFiles /\ [][NextFiles]_vars

(***************************************************************************)
(* The garbage collector: CleanupTemporaryResources.                       *)
(***************************************************************************)
Labelled(set) == {o.name : o \in {x \in set : x.lab}}

\* The lists of a set of names: the control plane's order is any order.
Orders(set) == {q \in [1..Cardinality(set) -> set] : \A n \in set : \E k \in DOMAIN q : q[k] = n}

\* fmt.Scanln(&response), line 437: the blanks before the first field are skipped
\* and the field ends at the next blank; what follows the field makes Scanln
\* return an error, which the code ignores, the field being stored already.  An
\* empty line leaves response empty.  A line is a sequence of characters.
RECURSIVE SkipBlanks(_)
SkipBlanks(line) ==
    IF line # << >> /\ Head(line) = " " THEN SkipBlanks(Tail(line)) ELSE line
RECURSIVE Field(_)
Field(line) ==
    IF line = << >> \/ Head(line) = " " THEN << >> ELSE << Head(line) >> \o Field(Tail(line))
Scanln(line) == Field(SkipBlanks(line))

MaxLine == 2
Chars == {"y", "Y", "n", " "}
Lines == UNION {[1..n -> Chars] : n \in 0..MaxLine}

\* Line 439: `response != "y" && response != "Y"` cancels.
Confirmed_unlessNo(response) == response # << "n" >>
Confirmed(response) == response = << "y" >> \/ response = << "Y" >>

\* Line 402: nothing to do when the three lists are empty.
NothingFound_never(total) == FALSE
NothingFound(total) == total = 0

\* Lines 447-472: the pods first, then the claims, then the PVs.
SweepOrder_pvFirst == << "pv", "pvc", "pod" >>
SweepOrder == << "pod", "pvc", "pv" >>

\* The position of the next delete request from (phase, k) on: the loops over
\* empty lists do nothing.
RECURSIVE NextItem(_, _, _)
NextItem(lists, phase, k) ==
    IF phase > Len(SweepOrder) THEN [phase |-> 0, k |-> 0]
    ELSE IF k <= Len(lists[SweepOrder[phase]]) THEN [phase |-> phase, k |-> k]
    ELSE NextItem(lists, phase + 1, 1)

SweepFault(f) == nfaults' = nfaults + (IF f THEN 1 ELSE 0)
SweepDone(r, res) == [r EXCEPT !.pc = "done", !.result = res, !.phase = 0, !.k = 0]

\* Lines 376-382: list the labelled pods of the namespace.
SweepListPods ==
    /\ sw.pc = "list_pods"
    /\ \E f \in Faults :
         /\ SweepFault(f)
         /\ IF f THEN sw' = SweepDone(sw, "ListFailed")
            ELSE \E q \in Orders(Labelled(pods)) :
                    sw' = [sw EXCEPT !.lists["pod"] = q, !.pc = "list_pvcs"]
    /\ UNCHANGED <<cluster, proc, nenv, last, cp, fsys>>

\* Lines 384-390: list the labelled claims of the namespace.
SweepListClaims ==
    /\ sw.pc = "list_pvcs"
    /\ \E f \in Faults :
         /\ SweepFault(f)
         /\ IF f THEN sw' = SweepDone(sw, "ListFailed")
            ELSE \E q \in Orders(Labelled(pvcs)) :
                    sw' = [sw EXCEPT !.lists["pvc"] = q, !.pc = "list_pvs"]
    /\ UNCHANGED <<cluster, proc, nenv, last, cp, fsys>>

\* Lines 392-405: list the labelled PVs of the cluster; return when the three
\* lists are empty.
SweepListPVs ==
    /\ sw.pc = "list_pvs"
    /\ \E f \in Faults :
         /\ SweepFault(f)
         /\ IF f THEN sw' = SweepDone(sw, "ListFailed")
            ELSE \E q \in Orders(Labelled(pvs)) :
                    LET r == [sw EXCEPT !.lists["pv"] = q]
                        total == Len(r.lists["pod"]) + Len(r.lists["pvc"]) + Len(r.lists["pv"])
                    IN  sw' = IF NothingFound(total) THEN SweepDone(r, "ok")
                              ELSE [r EXCEPT !.pc = "confirm"]
    /\ UNCHANGED <<cluster, proc, nenv, last, cp, fsys>>

\* Lines 407-445: show what was found, ask, read the answer.
SweepConfirm ==
    /\ sw.pc = "confirm"
    /\ \E line \in Lines :
         LET r == [sw EXCEPT !.prompted = TRUE, !.response = Scanln(line)]
             first == NextItem(r.lists, 1, 1)
         IN  sw' = IF ~Confirmed(r.response) THEN SweepDone(r, "ok")
                   ELSE IF first.phase = 0 THEN SweepDone(r, "ok")
                   ELSE [r EXCEPT !.pc = "delete", !.phase = first.phase, !.k = first.k]
    /\ UNCHANGED <<cluster, proc, nfaults, nenv, last, cp, fsys>>

\* Lines 451-453 (461-463, 470-472): a failed delete prints a warning and the
\* loop goes on.
SweepContinues_unlessFailed(f) == ~f
SweepContinues(f) == TRUE

\* Lines 447-476: one delete request; a failure is a warning.  After the last
\* one the sweep returns nil.
SweepDelete ==
    /\ sw.pc = "delete"
    /\ \E f \in Faults :
         LET kind == SweepOrder[sw.phase]
             name == sw.lists[kind][sw.k]
             nxt == NextItem(sw.lists, sw.phase, sw.k + 1)
             r == [sw EXCEPT !.deletes = Append(@, Obj(kind, name)),
                             !.failed = IF f THEN @ \cup {Obj(kind, name)} ELSE @]
         IN
         /\ SweepFault(f)
         /\ sw' = IF ~SweepContinues(f) THEN SweepDone(r, "DeleteFailed")
                  ELSE IF nxt.phase = 0 THEN SweepDone(r, "ok")
                  ELSE [r EXCEPT !.phase = nxt.phase, !.k = nxt.k]
         /\ pods' = IF kind = "pod" THEN Without(pods, name, f) ELSE pods
         /\ pvcs' = IF kind = "pvc" THEN Without(pvcs, name, f) ELSE pvcs
         /\ pvs' = IF kind = "pv" THEN Without(pvs, name, f) ELSE pvs
    /\ UNCHANGED <<lhvol, proc, nenv, last, cp, fsys>>

(***************************************************************************)
(* SpecSweep: one cleanup command in a cluster that holds any subset of:   *)
(* the temporary objects of volume a (direct and indirect), labelled; an   *)
(* operator's objects without the label; an operator's objects that carry  *)
(* the label.                                                              *)
(***************************************************************************)
SweepPods ==
    {MkPod(TempPod("a"), "Running", TempPodSpec(TempPVC("a")), TRUE),
     MkPod(TempPod(RwxName("a")), "Pending", TempPodSpec(TempPVC(RwxName("a"))), TRUE),
     MkPod(OpPod("a"), "Running", WorkloadSpec("plain", OpPVC("a")), FALSE),
     MkPod(OpPod("b"), "Running", WorkloadSpec("plain", OpPVC("b")), TRUE)}
SweepPVCs ==
    {MkPVC(TempPVC("a"), TempPV("a"), "Bound", TRUE),
     MkPVC(OpPVC("a"), OpPV("a"), "Bound", FALSE),
     MkPVC(OpPVC("b"), OpPV("b"), "Bound", TRUE)}
SweepPVs ==
    {MkPV(TempPV("a"), "a", TRUE),
     MkPV(OpPV("a"), "a", FALSE),
     MkPV(OpPV("b"), "b", TRUE)}

InitSweep ==
    /\ lhvol = [v \in Vols |-> ""]
    /\ pods \in SUBSET SweepPods
    /\ pvcs \in SUBSET SweepPVCs
    /\ pvs \in SUBSET SweepPVs
    /\ proc = [p \in Procs |-> [Fresh EXCEPT !.pc = "off"]]
    /\ nfaults = 0 /\ nenv = 0 /\ last = NoLast
    /\ sw = [SwOff EXCEPT !.pc = "list_pods"]
    /\ cp = CpOff /\ fsys = FsOff

NextSweep ==
    SweepListPods \/ SweepListClaims \/ SweepListPVs \/ SweepConfirm \/ SweepDelete

SpecSweep == InitSweep /\ [][NextSweep]_vars

(***************************************************************************)
(* The streaming copy engine: streamCopyBetweenPods.  The producer task    *)
(* writes the archive of the source into a pipe, chunk by chunk; the       *)
(* consumer task reads the pipe into the extraction at the destination;    *)
(* each task sends its result on errChan, of capacity 2, and the caller    *)
(* receives from errChan.  A write to the pipe completes when the chunk    *)
(* has been read.                                                          *)
(***************************************************************************)
MaxChunks == 3

\* Line 704: `defer writer.Close()` runs whatever the result of the task.
ClosesWriter_onSuccess(err) == ~err
ClosesWriter(err) == TRUE

\* Line 701: errChan := make(chan error, 2).  A send completes when the channel
\* holds fewer results than its capacity.
ErrChanCap == 2
HasRoom_single(n) == n = 0
HasRoom(n) == n < ErrChanCap

EngineVars == <<cluster, proc, nfaults, nenv, last, sw, fsys>>
Result(err) == IF err THEN "err" ELSE "nil"

\* Lines 705-706: the remote tar writes one more chunk of the archive.
ProducerWrite ==
    /\ cp.prod = "run" /\ cp.todo > 0 /\ cp.pipe = 0
    /\ cp' = [cp EXCEPT !.pipe = 1, !.todo = @ - 1]
    /\ UNCHANGED EngineVars

\* Lines 705-707: execInPodWithOutput returns nil after the whole archive has
\* been written and read; `errChan <- err`.
ProducerSucceed ==
    /\ cp.prod = "run" /\ cp.todo = 0 /\ cp.pipe = 0
    /\ HasRoom(Len(cp.errChan))
    /\ cp' = [cp EXCEPT !.prod = "sent", !.errChan = Append(@, Result(FALSE))]
    /\ UNCHANGED EngineVars

\* Lines 705-707: execInPodWithOutput returns an error (the remote tar exits
\* nonzero, the exec request fails); `errChan <- err`.
ProducerFail ==
    /\ cp.prod = "run" /\ cp.pipe = 0
    /\ HasRoom(Len(cp.errChan))
    /\ cp' = [cp EXCEPT !.prod = "sent", !.prodErr = TRUE,
                        !.errChan = Append(@, Result(TRUE))]
    /\ UNCHANGED EngineVars

\* Line 704: the deferred close of the writer, after the send.
ProducerClose ==
    /\ cp.prod = "sent"
    /\ cp' = [cp EXCEPT !.prod = "done", !.wclosed = ClosesWriter(cp.prodErr)]
    /\ UNCHANGED EngineVars

\* Lines 713-714: the extraction reads a chunk from the pipe.
ConsumerRead ==
    /\ cp.cons = "run" /\ cp.pipe = 1
    /\ cp' = [cp EXCEPT !.pipe = 0, !.got = @ + 1]
    /\ UNCHANGED EngineVars

\* Lines 713-715: the pipe is empty and its writer closed: the read returns
\* end-of-input, the remote tar ends (with an error or not: the archive may be
\* truncated) and execInPodWithInput returns; `errChan <- err`.
ConsumerEOF ==
    /\ cp.cons = "run" /\ cp.pipe = 0 /\ cp.wclosed
    /\ HasRoom(Len(cp.errChan))
    /\ \E err \in BOOLEAN :
         /\ (~cp.prodErr /\ cp.todo = 0) => ~err
         /\ cp' = [cp EXCEPT !.cons = "done", !.eof = TRUE, !.consErr = err,
                             !.errChan = Append(@, Result(err))]
    /\ UNCHANGED EngineVars

\* Lines 713-715: execInPodWithInput returns an error before end-of-input.
ConsumerFail ==
    /\ cp.cons = "run"
    /\ HasRoom(Len(cp.errChan))
    /\ cp' = [cp EXCEPT !.cons = "done", !.consErr = TRUE,
                        !.errChan = Append(@, Result(TRUE))]
    /\ UNCHANGED EngineVars

\* Lines 720-722: `if err := <-errChan; err != nil { return ... }`.
FirstError_waitsForBoth(res) == FALSE
FirstError(res) == res = "err"

\* Lines 719-725: receive one result; return at the first error, or nil after
\* two results.
EngineReceive ==
    /\ cp.pc = "run" /\ cp.errChan # << >>
    /\ LET r == [cp EXCEPT !.errChan = Tail(@), !.received = @ + 1] IN
       cp' = IF FirstError(Head(cp.errChan))
               THEN [r EXCEPT !.pc = "returned", !.ret = "StreamCopyFailed"]
             ELSE IF r.received = 2 THEN [r EXCEPT !.pc = "returned", !.ret = "ok"]
             ELSE r
    /\ UNCHANGED EngineVars

(***************************************************************************)
(* SpecEngine: one call of streamCopyBetweenPods for an archive of up to   *)
(* MaxChunks chunks.  The scheduler runs every task that can take a step;  *)
(* no failure is bound to happen.                                          *)
(***************************************************************************)
InitEngine ==
    /\ lhvol = [v \in Vols |-> ""] /\ pvs = {} /\ pvcs = {} /\ pods = {}
    /\ proc = [p \in Procs |-> [Fresh EXCEPT !.pc = "off"]]
    /\ nfaults = 0 /\ nenv = 0 /\ last = NoLast
    /\ sw = SwOff /\ fsys = FsOff
    /\ \E n \in 0..MaxChunks :
         cp = [CpOff EXCEPT !.pc = "run", !.prod = "run", !.cons = "run", !.todo = n]

NextEngine ==
    \/ ProducerWrite \/ ProducerSucceed \/ ProducerFail \/ ProducerClose
    \/ ConsumerRead \/ ConsumerEOF \/ ConsumerFail
    \/ EngineReceive

SpecEngine ==
    /\ InitEngine /\ [][NextEngine]_vars
    /\ WF_vars(ProducerWrite) /\ WF_vars(ProducerSucceed) /\ WF_vars(ProducerClose)
    /\ WF_vars(ConsumerRead) /\ WF_vars(ConsumerEOF)
    /\ WF_vars(EngineReceive)

(***************************************************************************)
(* Properties of the resolver and of the provisioner.                      *)
(***************************************************************************)
TempHandle(v) == Handle(TempPod(v), ContainerName, MountPath)

\* A resolution that follows a successful direct provisioning of the same volume
\* at once: nothing happened in the cluster since that provisioning returned,
\* and the control plane answered every request of this resolution.
ImmediateSecond(r) ==
    r.pc = "resolved" /\ r.second /\ ~r.disturbed /\ ~r.faulted

\* C1: Provision is idempotent.  A provisioning of a volume that succeeded,
\* followed immediately by a second one of the same volume, returns the same
\* handle (pod lhc-temp-pod-<volume>, container temp-container, path
\* /mnt/volume), and the second call issues no create request for a PV, a claim
\* or a pod.
C1_ProvisionIdempotent ==
    \A p \in Procs :
       LET r == proc[p] IN
       ImmediateSecond(r) =>
          /\ r.err = ""
          /\ r.handle = r.prevH
          /\ r.handle = TempHandle(r.vol)
          /\ r.creates = {}

C1_Witness ==
    \E p \in Procs :
       /\ ImmediateSecond(proc[p])
       /\ proc[p].handle = TempHandle("a")
       /\ proc[p].touched = {Obj("pv", TempPV("a")), Obj("pvc", TempPVC("a")),
                             Obj("pod", TempPod("a"))}

\* C2: when the in-use determination reports the volume not in use (no bound
\* endpoint, or isVolumeInUse returned false), getVolumeInfo never calls
\* findExistingPodForVolume nor createSnapshotBasedAccess, and a successful
\* resolution is a direct provisioning.
C2_NotInUseNeverIndirect ==
    \A p \in Procs :
       LET r == proc[p] IN
       ~r.inUse =>
          /\ ~r.snap /\ ~r.findRan /\ r.kind # "indirect"
          /\ (r.pc = "resolved" /\ r.err = "") => r.path = "direct"

C2_Witness ==
    \E p \in Procs :
       /\ proc[p].pc = "resolved" /\ proc[p].err = ""
       /\ proc[p].pvName # "" /\ ~proc[p].inUse
       /\ proc[p].path = "direct"

\* C3: when the volume is reported in use and, at the time
\* findExistingPodForVolume lists the pods, a running pod has a container that
\* mounts the volume's bound claim, getVolumeInfo returns the pod name, the
\* container name and the mount path of such a pod, and issues no create and no
\* delete request (the control plane answering every request).
C3_ExistingWorkloadHandle ==
    \A p \in Procs :
       LET r == proc[p] IN
       (r.pc = "resolved" /\ r.inUse /\ ~r.faulted /\ r.disc # {}) =>
          /\ r.err = ""
          /\ r.handle \in r.disc
          /\ r.path = "existing"
          /\ r.creates = {} /\ r.touched = {} /\ r.deletes = << >>

C3_Witness ==
    \E p \in Procs :
       /\ proc[p].pc = "resolved" /\ proc[p].inUse /\ ~proc[p].faulted
       /\ proc[p].handle = Handle(OpPod("a"), "app", "/srv")
       /\ proc[p].handle \in proc[p].disc

(***************************************************************************)
(* Properties of the garbage collector (SpecSweep).                        *)
(***************************************************************************)
SweepTotal == Len(sw.lists["pod"]) + Len(sw.lists["pvc"]) + Len(sw.lists["pv"])
SweepListed ==
    {Obj(k, sw.lists[k][i]) : k \in {"pod"}, i \in DOMAIN sw.lists["pod"]}
      \cup {Obj(k, sw.lists[k][i]) : k \in {"pvc"}, i \in DOMAIN sw.lists["pvc"]}
      \cup {Obj(k, sw.lists[k][i]) : k \in {"pv"}, i \in DOMAIN sw.lists["pv"]}
KindRank(kind) == CASE kind = "pod" -> 1 [] kind = "pvc" -> 2 [] kind = "pv" -> 3

\* C8: a sweep whose three lists succeed and are empty asks nothing, issues no
\* delete request and returns success.
C8_SweepNothingFound ==
    (sw.pc = "done" /\ sw.result # "ListFailed" /\ SweepTotal = 0) =>
        /\ ~sw.prompted
        /\ sw.deletes = << >>
        /\ sw.result = "ok"
C8_Witness ==
    /\ sw.pc = "done" /\ sw.result = "ok" /\ SweepTotal = 0
    /\ pods # {} /\ pvcs # {} /\ pvs # {}

\* C9: a sweep that found something and whose scanned answer is neither "y" nor
\* "Y" (the empty answer and "n" included) issues no delete request, leaves every
\* listed object in place and returns success.
C9_SweepCancelled ==
    (sw.pc = "done" /\ sw.prompted /\ sw.response # << "y" >> /\ sw.response # << "Y" >>) =>
        /\ SweepTotal > 0
        /\ sw.deletes = << >>
        /\ \A o \in SweepListed : Present(o)
        /\ sw.result = "ok"
C9_Witness ==
    /\ sw.pc = "done" /\ sw.prompted /\ sw.response = << "n" >>
    /\ Cardinality(SweepListed) >= 3

\* C10: in the sequence of the delete requests of a sweep no claim precedes a
\* pod and no PV precedes a claim or a pod.
C10_SweepOrder ==
    \A i \in DOMAIN sw.deletes : \A j \in DOMAIN sw.deletes :
        i < j => KindRank(sw.deletes[i].kind) <= KindRank(sw.deletes[j].kind)
C10_Witness ==
    /\ sw.pc = "done" /\ Confirmed(sw.response)
    /\ {sw.deletes[i].kind : i \in DOMAIN sw.deletes} = {"pod", "pvc", "pv"}
    /\ Len(sw.deletes) >= 4

(***************************************************************************)
(* Properties of the copy command (SpecCopyCmd).                           *)
(***************************************************************************)
CopySucceeded(r) == r.pc = "done" /\ r.cmd = "copy" /\ r.err = ""
DeleteRequested(r, o) == \E i \in DOMAIN r.deletes : r.deletes[i] = o

\* C7: after a successful copy command every temporary pod, claim and PV that
\* the resolution of the source or of the destination created or reused has
\* received a delete request, whichever path produced the handle.
C7_CopyRemovesBothSets ==
    \A p \in Procs :
        CopySucceeded(proc[p]) => \A o \in proc[p].touched : DeleteRequested(proc[p], o)

(***************************************************************************)
(* Properties of the streaming copy engine (SpecEngine).                   *)
(***************************************************************************)
ProducerFailed == cp.prodErr /\ cp.prod # "run"

\* C4: once the producer task has failed, the writer of the pipe gets closed,
\* the consumer task ends and the call returns "stream copy failed", in every
\* interleaving of the two tasks.
C4_ProducerFailureTerminates ==
    ProducerFailed ~>
        (cp.wclosed /\ cp.cons = "done" /\ cp.pc = "returned" /\ cp.ret = "StreamCopyFailed")
C4_Witness ==
    /\ ProducerFailed /\ cp.wclosed
    /\ cp.cons = "done" /\ cp.eof
    /\ cp.pc = "returned" /\ cp.ret = "StreamCopyFailed"

\* C5: the call has received two results when it returns.
C5_ReceivesBothResults == cp.pc = "returned" => cp.received = 2

(***************************************************************************)
(* Properties of the copied files (SpecFiles).                             *)
(***************************************************************************)
\* C6: after a successful copy the destination's mount root holds exactly the
\* source's files: none of the files it held before is left.
C6_DestinationIsSource ==
    \A p \in Procs :
        CopySucceeded(proc[p]) => fsys.files[proc[p].dst] = fsys.files[proc[p].src]

\* C11: a confirmed sweep issues a delete request for every listed pod, claim
\* and PV and returns success, whichever delete request failed.
C11_SweepBestEffort ==
    (sw.pc = "done" /\ sw.prompted /\ Confirmed(sw.response)) =>
        /\ sw.result = "ok"
        /\ \A o \in SweepListed : DeleteRequested(sw, o)
        /\ Len(sw.deletes) = SweepTotal
C11_Witness ==
    /\ sw.pc = "done" /\ sw.result = "ok" /\ Confirmed(sw.response)
    /\ sw.failed # {} /\ sw.deletes[1] \in sw.failed
    /\ Len(sw.deletes) >= 4
    /\ \E o \in sw.failed : Present(o)

(***************************************************************************)
(* Properties of the provisioner's lookups (Spec).                         *)
(***************************************************************************)
\* C12: a lookup of a temporary object that fails with an error other than
\* NotFound is followed by no create request for that object, and the
\* resolution returns an error.
C12_OnlyNotFoundCreates ==
    \A p \in Procs :
        LET r == proc[p] IN
        /\ r.getErr \cap r.creates = {}
        /\ (r.getErr # {} /\ r.pc = "resolved") => r.err # ""

C14_RemovesWhatItCreated ==
    \A p \in Procs :
       LET r == proc[p] IN
       (r.pc = "done" /\ r.err = "" /\ r.cmd \in {"contents", "download", "copy"}) =>
           \A o \in r.creates : DeleteRequested(r, o)

(***************************************************************************)
(* Properties of the resolver's choice of a path (Spec).                   *)
(***************************************************************************)
\* The search for an existing mounting workload has ended without a handle.
SearchFailed(r) ==
    r.findRan /\ r.pc \notin {"find_pvcs", "find_pods"} /\ r.path # "existing"

\* C15: the resolver takes the indirect (snapshot-based) access exactly when the
\* volume has a PV, the in-use check said in use and the search for an existing
\* mounting workload gave no handle; every other successful resolution returns
\* an existing workload's handle or a direct provisioning.
C15_IndirectExactlyWhen ==
    \A p \in Procs :
       LET r == proc[p] IN
       /\ r.snap <=> (r.pvName # "" /\ r.inUse /\ SearchFailed(r))
       /\ r.kind = "indirect" => r.snap
       /\ (r.pc = "resolved" /\ r.err = "") =>
             /\ r.path \in {"existing", "direct", "indirect"}
             /\ r.path = "indirect" <=> r.snap
             /\ r.path = "existing" => r.handle \in r.disc
             /\ r.path = "direct" => r.handle = TempHandle(r.vol)
             /\ r.path = "indirect" => r.handle = TempHandle(RwxName(r.vol))
C15_Witness ==
    \E p \in Procs :
       LET r == proc[p] IN
       /\ r.pc = "resolved" /\ r.err = "" /\ r.path = "indirect" /\ r.snap
       /\ r.inUse /\ r.pvName = OpPV("a") /\ ~r.faulted /\ r.disc = {}
       /\ r.handle = TempHandle(RwxName("a"))

\* C16: the resolution of a name that is no volume of the storage metadata ends
\* at the lookup with a not-found error: no list of claims or pods, no lookup of
\* a temporary object, no create, no delete, no remote command.
C16_AbsentVolumeStopsAtLookup ==
    \A p \in Procs :
       LET r == proc[p] IN
       (r.vol # "" /\ r.vol \notin DOMAIN lhvol) =>
           /\ r.pc \in {"gvi_lookup", "resolved", "done"}
           /\ r.pc # "gvi_lookup" => (r.err = "NotFound" /\ r.handle = NoHandle)
           /\ ~r.findRan /\ ~r.snap /\ r.targetPVC = "" /\ r.getErr = {}
           /\ r.creates = {} /\ r.touched = {} /\ r.deletes = << >> /\ r.execs = << >>
C16_Witness ==
    \E p \in Procs :
       LET r == proc[p] IN
       /\ r.vol = Ghost /\ r.pc = "done" /\ r.err = "NotFound" /\ ~r.faulted
       /\ pods # {} /\ pvcs # {}

\* C17: a list request of the resolver that failed, in the in-use check or in
\* the search for the mounting workload, makes the resolution return an error
\* at once: nothing is provisioned after it.
C17_ListErrorsSurfaced ==
    \A p \in Procs :
       LET r == proc[p] IN
       r.listErr =>
           /\ r.pc \in {"resolved", "done"}
           /\ r.err # ""
           /\ ~r.snap /\ r.creates = {} /\ r.touched = {}

(***************************************************************************)
(* Properties of the set of temporary objects (SpecTwice, SpecSweep).      *)
(***************************************************************************)
\* The names the temporary objects of volume v derive from: the volume's own
\* (direct provisioning) and lhc-temp-rwx-<v> (indirect access).
TempNames(v) == {v, RwxName(v)}

\* C18: a volume has at most one temporary PV, at most one temporary claim and
\* at most one temporary pod, whichever access path made them.
C18_OneSetPerVolume ==
    \A v \in Vols :
        /\ Cardinality({n \in TempNames(v) : HasPV(TempPV(n))}) <= 1
        /\ Cardinality({n \in TempNames(v) : HasPVC(TempPVC(n))}) <= 1
        /\ Cardinality({n \in TempNames(v) : HasPod(TempPod(n))}) <= 1

\* The names of the temporary objects: lhc-temp-pv-, lhc-temp-pvc- and
\* lhc-temp-pod- followed by a name derived from a volume name.
TempObjectNames ==
    UNION {{TempPV(n), TempPVC(n), TempPod(n)} : n \in UNION {TempNames(v) : v \in VolArgs}}

\* C19: every object that the tool creates or deletes, in an invocation's
\* provisioning, in the cleanup after a copy or in a sweep, has one of the
\* names of the temporary objects.
C19_OnlyPrefixedNames ==
    /\ \A i \in DOMAIN sw.deletes : sw.deletes[i].name \in TempObjectNames
    /\ \A p \in Procs :
          /\ \A o \in proc[p].creates : o.name \in TempObjectNames
          /\ \A i \in DOMAIN proc[p].deletes : proc[p].deletes[i].name \in TempObjectNames

\* C20: every temporary PV, claim and pod that the provisioner has created, on
\* the direct or on the indirect path, and that is still there carries the
\* label app=lhc-temp, and is therefore in the list that a sweep gets.
C20_CreatedObjectsLabelled ==
    /\ \A o \in pvs : o.name \in TempObjectNames => (o.lab /\ o.name \in Labelled(pvs))
    /\ \A o \in pvcs : o.name \in TempObjectNames => (o.lab /\ o.name \in Labelled(pvcs))
    /\ \A o \in pods : o.name \in TempObjectNames => (o.lab /\ o.name \in Labelled(pods))
    /\ \A p \in Procs : \A o \in proc[p].creates \cap proc[p].touched :
          o.name \in Labelled(pvs) \cup Labelled(pvcs) \cup Labelled(pods)
C20_Witness ==
    /\ {TempPV("a"), TempPV(RwxName("a"))} \subseteq Labelled(pvs)
    /\ {TempPVC("a"), TempPVC(RwxName("a"))} \subseteq Labelled(pvcs)
    /\ {TempPod("a"), TempPod(RwxName("a"))} \subseteq Labelled(pods)
    /\ Labelled(pods) # {o.name : o \in pods}

(***************************************************************************)
(* Properties of the provisioner's waits (Spec).                           *)
(***************************************************************************)
\* C21: when the 60th poll of a newly created claim finds it still unbound, the
\* provisioning does not return there: it goes on to the lookup of the pod
\* without an error, and from there only to the pod's create, the pod's
\* readiness poll and the return.
C21_ClaimTimeoutProceeds ==
    /\ [](\A p \in Procs :
            proc[p].timedOut =>
               /\ proc[p].pc \in {"pod_get", "pod_create", "pod_poll", "resolved", "done"}
               /\ Obj("pvc", TempPVC(proc[p].tv)) \in proc[p].creates)
    /\ [][\A p \in Procs :
            (proc'[p].timedOut /\ ~proc[p].timedOut) =>
               /\ proc[p].pc = "pvc_poll" /\ proc[p].i = PVCPollMax - 1
               /\ proc'[p].pc = "pod_get" /\ proc'[p].err = ""]_vars
C21_Witness ==
    \E p \in Procs :
       LET r == proc[p] IN
       /\ r.timedOut /\ r.pc = "pod_poll" /\ r.i > 0
       /\ Obj("pod", TempPod(r.tv)) \in r.creates
       /\ ThePVC(TempPVC(r.tv)).phase = "Pending"

\* The steps of createTemporaryPodForLonghorn and of createTemporaryPodForRWXVolume.
Provisioning(r) ==
    r.pc \in {"prov_getvol", "ctpv_get", "ctpv_getvol", "ctpv_create", "snap_getvol",
              "rwxpv_get", "rwxpv_create", "pvc_get", "pvc_create", "pvc_poll",
              "pod_get", "pod_create", "pod_poll"}

\* C22: a provisioning always returns.  It has made fewer than 60 polls of the
\* claim whenever it is about to make one, and fewer than 120 polls of the pod;
\* the 120th poll of the pod returns: when it was answered and the pod was not
\* running, with the error "did not become ready in time" and no handle.
C22_ProvisionTerminates ==
    /\ \A p \in Procs : Provisioning(proc[p]) ~> (proc[p].pc = "resolved")
    /\ [](\A p \in Procs :
            LET r == proc[p] IN
            /\ r.pc = "pvc_poll" => r.i < PVCPollMax
            /\ r.pc = "pod_poll" => r.i < PodPollMax
            /\ r.pc \notin {"pvc_poll", "pod_poll", "cleanup"} => r.i = 0
            /\ r.err = "NotReady" => (r.handle = NoHandle /\ r.pc \in {"resolved", "done"}))
    /\ [][\A p \in Procs :
            (proc[p].pc = "pod_poll" /\ proc[p].i = PodPollMax - 1 /\ proc'[p].i # proc[p].i) =>
               /\ proc'[p].pc = "resolved"
               /\ (~proc'[p].faulted /\ ~PodReusable(TempPod(proc[p].tv), FALSE)) =>
                     proc'[p].err = "NotReady"]_vars
C22_Witness ==
    \E p \in Procs :
       LET r == proc[p] IN
       /\ r.pc = "done" /\ r.err = "NotReady" /\ r.handle = NoHandle
       /\ ~r.faulted /\ r.timedOut
       /\ HasPod(TempPod(r.vol)) /\ ThePod(TempPod(r.vol)).phase = "Pending"

(***************************************************************************)
(* Properties of the order of the copy command's steps (SpecCopyCmd).      *)
(***************************************************************************)
\* The remote commands of an invocation of a given kind, by their position.
ExecsOf(r, what) == {i \in DOMAIN r.execs : r.execs[i][1] = what}

\* C23: in a copy command the streaming copy is started only after the clear
\* command of the destination has been run, and has succeeded: a copy whose
\* clear command failed ends with an error and has started no streaming copy.
C23_ClearBeforeStream ==
    \A p \in Procs :
       LET r == proc[p] IN
       /\ \A i \in ExecsOf(r, "stream") :
             \E j \in ExecsOf(r, "rm") : j < i /\ r.execs[j][2] = r.execs[i][3]
       /\ r.rmErr => (r.pc = "done" /\ r.err = "ClearFailed" /\ ExecsOf(r, "stream") = {})
       /\ r.pc = "cv_stream" => r.execs = << <<"rm", r.dstH>> >>
C23_Witness ==
    \E p \in Procs :
       LET r == proc[p] IN
       /\ r.pc = "done" /\ r.cmd = "copy" /\ r.rmErr /\ r.err = "ClearFailed"
       /\ r.execs = << <<"rm", r.dstH>> >>
       /\ r.dstH = TempHandle("b") /\ r.srcH = Handle(OpPod("a"), "app", "/data")

\* CopyVolume has returned nil: the streaming copy was run and did not fail.
CopyVolumeSucceeded(r) ==
    r.cmd = "copy" /\ ExecsOf(r, "stream") # {} /\ r.err # "StreamCopyFailed"

\* C24: after a successful CopyVolume the command issues the six delete
\* requests, pod, claim and PV of the source and then of the destination, in
\* that order, whichever of them fail (refused by the control plane, or naming
\* no object), and ends without an error.
C24_CleanupNeverFails ==
    \A p \in Procs :
       LET r == proc[p] IN
       CopyVolumeSucceeded(r) =>
          /\ r.pc \in {"cleanup", "done"}
          /\ r.pc = "cleanup" => r.deletes = SubSeq(CleanupTargets(r), 1, r.i)
          /\ r.pc = "done" => (r.err = "" /\ r.deletes = CleanupTargets(r))
C24_Witness ==
    \E p \in Procs :
       LET r == proc[p] IN
       /\ CopyVolumeSucceeded(r) /\ r.pc = "done" /\ r.err = ""
       /\ r.src = "a" /\ r.dst = "b"
       /\ r.delErr = {1, 2, 3, 5}
       /\ Present(Obj("pvc", TempPVC("b"))) /\ Obj("pvc", TempPVC("b")) \in r.creates

(***************************************************************************)
(* More properties of the streaming copy engine (SpecEngine).              *)
(***************************************************************************)
\* C25: a task that has its result still to send finds room in the result
\* channel, whatever the other task and the caller have done, the return of the
\* caller after a first error included; the channel never holds more than its
\* capacity.
C25_SendNeverBlocks ==
    /\ (cp.prod = "run" \/ cp.cons = "run") => HasRoom(Len(cp.errChan))
    /\ Len(cp.errChan) <= ErrChanCap
    /\ Len(cp.errChan) + cp.received =
          (IF cp.prod = "run" THEN 0 ELSE 1) + (IF cp.cons = "run" THEN 0 ELSE 1)
C25_Witness ==
    /\ cp.pc = "returned" /\ cp.ret = "StreamCopyFailed" /\ cp.received = 1
    /\ cp.prod = "done" /\ cp.cons = "done" /\ cp.eof
    /\ Len(cp.errChan) = 1

(***************************************************************************)
(* Properties of the resolver under a changing cluster (Spec).             *)
(***************************************************************************)
\* C26: the in-use check is not repeated.  A resolution whose in-use check found
\* no running user of the volume's claim, and that entered the provisioning while
\* a workload was using the claim (the workload started after the check), has
\* still taken the direct provisioning: when it returns a handle, it is the
\* temporary pod's, not the workload's.
C26_StaleDecisionKept ==
    \A p \in Procs :
       LET r == proc[p] IN
       /\ (~r.inUse /\ r.pvName # "") => (~r.findRan /\ ~r.snap)
       /\ r.stale =>
             /\ ~r.inUse /\ r.disturbed /\ r.kind # "indirect"
             /\ (r.pc = "resolved" /\ r.err = "") =>
                   (r.path = "direct" /\ r.handle = TempHandle(r.vol))
C26_Witness ==
    \E p \in Procs :
       LET r == proc[p] IN
       /\ r.pc = "resolved" /\ r.err = "" /\ ~r.faulted
       /\ r.vol = "a" /\ r.pvName = OpPV("a") /\ r.targetPVC = OpPVC("a")
       /\ ~r.inUse /\ r.stale
       /\ r.path = "direct" /\ r.handle = TempHandle("a")
       /\ Handle(OpPod("a"), "app", "/data") \in Discoverable(r.pvName)
       /\ Obj("pv", TempPV("a")) \in r.creates

(***************************************************************************)
(* Properties of two concurrent invocations (SpecRace).                    *)
(***************************************************************************)
\* No two objects of a kind have the same name.
UniqueNames(set) == \A x \in set : \A y \in set : x.name = y.name => x = y

\* C27: of two invocations that provision the same volume at the same time, at
\* most one ever has a create request rejected as naming an existing object,
\* and the cluster never holds two PVs, two claims or two pods of one name.
C27_AtMostOneRejected ==
    /\ ~(\A p \in Procs : proc[p].rejected)
    /\ \A p \in Procs : proc[p].rejected => (proc[p].pc \in {"resolved", "done"} /\ proc[p].err # "")
    /\ UniqueNames(pvs) /\ UniqueNames(pvcs) /\ UniqueNames(pods)
C27_Witness ==
    /\ proc[1].pc = "done" /\ proc[1].rejected /\ Obj("pv", TempPV("a")) \in proc[1].touched
    /\ Obj("pod", TempPod("a")) \in proc[1].creates \ proc[1].touched
    /\ proc[2].pc = "done" /\ proc[2].err = "" /\ proc[2].handle = TempHandle("a")
    /\ Obj("pv", TempPV("a")) \notin proc[2].creates
    /\ Obj("pod", TempPod("a")) \in proc[2].creates \cap proc[2].touched

\* The temporary objects that a resolution of volume name v can look up or create.
ObjectsFor(v) ==
    UNION {{Obj("pv", TempPV(n)), Obj("pvc", TempPVC(n)), Obj("pod", TempPod(n))} :
              n \in TempNames(v)}

\* C28: a copy command resolves the source first.  While the source is being
\* resolved, and for ever when its resolution failed, nothing has been done for
\* the destination: no resolution begun, no object looked up or created but the
\* source's, no remote command.  The destination is resolved only with the
\* source's handle in hand, and a remote command (the clear, the streaming copy)
\* is run only with both handles: none when the destination's resolution failed.
C28_SourceThenDestination ==
    \A p \in Procs :
       LET r == proc[p] IN
       r.cmd = "copy" =>
          /\ r.stage \in {"src", "dst"}
          /\ r.stage = "src" =>
                /\ r.srcH = NoHandle /\ r.dstH = NoHandle /\ r.execs = << >>
                /\ r.vol = r.src
                /\ (r.touched \cup r.creates \cup r.getErr) \subseteq ObjectsFor(r.src)
          /\ r.stage = "dst" => (r.srcH # NoHandle /\ r.vol = r.dst)
          /\ r.execs # << >> => (r.stage = "dst" /\ r.srcH # NoHandle /\ r.dstH # NoHandle)
          /\ (r.pc = "done" /\ r.dstH = NoHandle) => (r.err # "" /\ r.execs = << >>)
C28_Witness ==
    \E p \in Procs :
       LET r == proc[p] IN
       /\ r.cmd = "copy" /\ r.pc = "done" /\ r.err # "" /\ ~r.faulted
       /\ r.src = "a" /\ r.dst = Ghost /\ r.stage = "dst"
       /\ r.srcH = TempHandle("a") /\ r.dstH = NoHandle /\ r.execs = << >>

\* C29: whatever the two volume names of a copy command, equal or different, no
\* rm command is run on the handle that was resolved for the source.
C29_SourceNeverCleared ==
    \A p \in Procs :
       LET r == proc[p] IN
       r.cmd = "copy" => \A i \in ExecsOf(r, "rm") : r.execs[i][2] # r.srcH

\* The error results that the caller has taken from the channel.
RECURSIVE ErrorsIn(_)
ErrorsIn(q) == IF q = << >> THEN 0 ELSE (IF Head(q) = "err" THEN 1 ELSE 0) + ErrorsIn(Tail(q))
ErrorsReceived ==
    (IF cp.prodErr /\ cp.prod # "run" THEN 1 ELSE 0)
      + (IF cp.consErr /\ cp.cons # "run" THEN 1 ELSE 0) - ErrorsIn(cp.errChan)

ObservedRunning(n) == \E o \in pods : o.name = n /\ o.phase = "Running"

\* C31: the request whose answer makes a resolution return a handle (the list
\* of the pods in the search for a workload, the lookup of the temporary pod or
\* a poll of it, on the direct and on the indirect path) showed the pod that the
\* handle names in the Running phase, also when the wait for the claim had
\* timed out; a returned handle names the pod, its container and its mount path.
C31_HandleObservedRunning ==
    /\ [][\A p \in Procs :
            (proc[p].pc # "resolved" /\ proc'[p].pc = "resolved" /\ proc'[p].err = "") =>
                ObservedRunning(proc'[p].handle.pod)]_vars
    /\ [](\A p \in Procs :
            (proc[p].pc = "resolved" /\ proc[p].err = "") =>
               /\ proc[p].handle.pod # "" /\ proc[p].handle.ctr # "" /\ proc[p].handle.path # ""
               /\ HasPod(proc[p].handle.pod))
C31_Witness ==
    \E p \in Procs :
       LET r == proc[p] IN
       /\ r.pc = "resolved" /\ r.err = "" /\ r.timedOut /\ r.path = "indirect"
       /\ r.handle = TempHandle(RwxName("a")) /\ ObservedRunning(r.handle.pod)
       /\ ThePVC(TempPVC(RwxName("a"))).phase = "Pending"
       /\ HasPod(TempPod("a"))

=============================================================================
